---- MODULE Spec2Model ----
(***************************************************************************)
(* PiCN: the tree routing information base (TreeRoutingInformationBase.py) *)
(* and the autoconfig server layer (AutoconfigServerLayer.py).             *)
(***************************************************************************)
EXTENDS Integers, Sequences, FiniteSets, TLC

\* ------------------------------------------------------------------ bounds

\* The RIB holds at most MaxRoutes distance-vector entries at a time.
MaxRoutes == 3
\* The clock of the autoconfig layer runs over 0 .. MaxClock, in hours, and so
\* does the clock the tables of the heartbeat layer read, in ticks.
MaxClock == 1
\* A message from below is handled while each outgoing queue holds fewer than
\* MaxQueue messages, one from above while to_lower holds at most MaxQueue: it
\* may queue behind a waiting message.
MaxQueue == 1
\* The clock of the autoconfig client runs over 0 .. MaxTime, in seconds.
MaxTime == 4

\* Python's None and a present value, as sequences of length 0 and 1.
None == <<>>
Some(x) == <<x>>
Val(o) == o[1]

\* The names routes are inserted for (Name.components).
RouteNames == { <<"a">>, <<"a", "b">>, <<"a", "c">> }
Faces == { 1, 2 }
Dists == { 1, 2 }
\* A route's timeout (a datetime, or None for a route that never ages), and
\* the clock an ageing call reads: the timeout itself, the latest instant at
\* which the route is outdated.
Timeouts == { None, Some(1) }
Times == { 1 }

VARIABLES
    tree,           \* TreeRoutingInformationBase._tree: node path -> _RIBTreeNode
    shortest_only,  \* _RIBTreeNode._collapse_shortest
    last,           \* the last call on the RIB: its arguments and what it returned
    layer,          \* AutoconfigServerLayer: _known_services, its FIB, the link
                    \* layer's faces, and the queues to_lower and to_higher
    interest_to_app,\* AutoconfigServerLayer._interest_to_app
    now,            \* the clock read by datetime.now()
    handled,        \* the last message handled by the layer, and whether it raised
    acked,          \* the registrations acknowledged: (service, address, latest time)
    forwarder,      \* ICNForwarder: its stages, their processes and its queues
    client,         \* AutoconfigRepoLayer: the repository's autoconfig client
    heartbeat       \* HeartbeatNetworkLayer: its PIT, CS, FIB and queues

ribvars == <<tree, shortest_only, last>>
acvars == <<layer, interest_to_app, now, handled, acked>>
fwdvars == <<forwarder>>
clvars == <<client>>
hbvars == <<heartbeat>>
vars == <<tree, shortest_only, last, layer, interest_to_app, now, handled, acked,
          forwarder, client, heartbeat>>

\* ------------------------------------------------------------- _RIBTreeNode

\* A node is identified by the path of name components that leads to it from
\* the root; _children keeps its keys in insertion order (a Python dict), and
\* so does _distance_vector, kept here as a sequence of entries.
RIBTreeNode(nc) ==
    [ nc |-> nc, parent |-> None, children |-> <<>>, dv |-> <<>> ]

Root == <<>>

InSeq(x, s) == \E i \in 1 .. Len(s) : s[i] = x

\* dict.__delitem__ on the ordered key sequence
DelKey(s, k) == SelectSeq(s, LAMBDA x : x # k)

\* dict.__setitem__ on _children's keys: a new key goes last, an old one stays
SetKey(s, k) == IF InSeq(k, s) THEN s ELSE Append(s, k)

\* mutant of SetDV: the entry is appended even when the face has one
SetDV_append(dv, fid, distance, timeout) ==
    Append(dv, [ fid |-> fid, dist |-> distance, timeout |-> timeout ])

\* _distance_vector[fid] = (distance, timeout)
SetDV(dv, fid, distance, timeout) ==
    LET e == [ fid |-> fid, dist |-> distance, timeout |-> timeout ]
    IN  IF \E i \in 1 .. Len(dv) : dv[i].fid = fid
        THEN [ i \in 1 .. Len(dv) |-> IF dv[i].fid = fid THEN e ELSE dv[i] ]
        ELSE Append(dv, e)

\* _RIBTreeNode._add_child of a freshly constructed child
add_child(t, node, child, nc) ==
    LET t1 == (child :> [ RIBTreeNode(Some(nc)) EXCEPT !.parent = Some(node) ]) @@ t
    IN  [ t1 EXCEPT ![node].children = SetKey(@, nc) ]

RECURSIVE InsertDescend(_, _, _)
\* the first loop of insert: the deepest node with a common prefix
InsertDescend(t, node, comps) ==
    IF Len(comps) > 0 /\ InSeq(comps[1], t[node].children)
    THEN InsertDescend(t, node \o <<comps[1]>>, Tail(comps))
    ELSE <<node, comps>>

RECURSIVE InsertCreate(_, _, _)
\* the second loop of insert: one new node per remaining component
InsertCreate(t, node, comps) ==
    IF Len(comps) > 0
    THEN LET child == node \o <<comps[1]>>
         IN  InsertCreate(add_child(t, node, child, comps[1]), child, Tail(comps))
    ELSE <<t, node>>

\* _RIBTreeNode.insert, called on the root
insert(t, name, fid, distance, timeout) ==
    LET d == InsertDescend(t, Root, name)
        c == InsertCreate(t, d[1], d[2])
        t1 == c[1]
        node == c[2]
    IN  [ t1 EXCEPT ![node].dv = SetDV(@, fid, distance, timeout) ]

\* mutant of get_best_fid: the last entry of minimal distance
get_best_fid_last(dv) ==
    LET i == CHOOSE i \in 1 .. Len(dv) :
                 /\ \A j \in 1 .. Len(dv) : dv[i].dist <= dv[j].dist
                 /\ \A j \in i + 1 .. Len(dv) : dv[j].dist > dv[i].dist
    IN  dv[i]

\* _RIBTreeNode._get_best_fid: min() keeps the first entry of minimal distance
get_best_fid(dv) ==
    LET i == CHOOSE i \in 1 .. Len(dv) :
                 /\ \A j \in 1 .. Len(dv) : dv[i].dist <= dv[j].dist
                 /\ \A j \in 1 .. i - 1 : dv[j].dist > dv[i].dist
    IN  dv[i]

\* (dist, timeout) < (dist, timeout) as Python compares tuples: "raise" when
\* the distances are equal and exactly one timeout is None
TupleLess(x, y) ==
    IF x[1] # y[1] THEN IF x[1] < y[1] THEN "lt" ELSE "ge"
    ELSE IF x[2] = y[2] THEN "ge"
    ELSE IF x[2] = None \/ y[2] = None THEN "raise"
    ELSE IF Val(x[2]) < Val(y[2]) THEN "lt" ELSE "ge"

RECURSIVE MinFrom(_, _, _)
\* min() over a list of (dist, timeout), left to right from the current minimum
MinFrom(cur, s, i) ==
    IF i > Len(s) THEN [ raised |-> FALSE, val |-> cur ]
    ELSE LET r == TupleLess(s[i], cur)
         IN  IF r = "raise" THEN [ raised |-> TRUE, val |-> cur ]
             ELSE MinFrom(IF r = "lt" THEN s[i] ELSE cur, s, i + 1)

PyMin(s) == MinFrom(s[1], s, 2)

\* the node's own candidates (lines 64-68 and 79-83)
OwnEntries(n, shortest) ==
    IF Len(n.dv) = 0 THEN <<>>
    ELSE IF shortest
         THEN LET b == get_best_fid(n.dv) IN << <<n.nc, b.fid, b.dist, b.timeout>> >>
         ELSE [ i \in 1 .. Len(n.dv) |->
                    <<n.nc, n.dv[i].fid, n.dv[i].dist, n.dv[i].timeout>> ]

RECURSIVE collapse(_, _, _), CollapseChildren(_, _, _, _)

\* lines 72-73: the children's results, concatenated in dict order
CollapseChildren(t, node, kids, shortest) ==
    IF kids = <<>> THEN [ raised |-> FALSE, val |-> <<>> ]
    ELSE LET c == collapse(t, node \o <<Head(kids)>>, shortest)
             r == CollapseChildren(t, node, Tail(kids), shortest)
         IN  IF c.raised \/ r.raised THEN [ raised |-> TRUE, val |-> <<>> ]
             ELSE [ raised |-> FALSE, val |-> c.val \o r.val ]

\* lines 70-83: the combined candidate list of a node with children
Candidates(t, node, shortest) ==
    LET n == t[node]
        ch == CollapseChildren(t, node, n.children, shortest)
        pre == [ i \in 1 .. Len(ch.val) |->
                    <<n.nc \o ch.val[i][1], ch.val[i][2], ch.val[i][3], ch.val[i][4]>> ]
    IN  IF ch.raised THEN ch
        ELSE [ raised |-> FALSE, val |-> pre \o OwnEntries(n, shortest) ]

SubFids(ch_res) == { ch_res[i][2] : i \in 1 .. Len(ch_res) }

\* mutant of Reduce: the prefix entry is added to the candidates it stands for
Reduce_keep(n, ch_res) ==
    IF Cardinality(SubFids(ch_res)) = 1 /\ Len(ch_res) > 1
    THEN LET m == PyMin([ i \in 1 .. Len(ch_res) |-> <<ch_res[i][3], ch_res[i][4]>> ])
         IN  IF m.raised THEN [ raised |-> TRUE, val |-> <<>> ]
             ELSE [ raised |-> FALSE,
                    val |-> Append(ch_res, <<n.nc, ch_res[1][2], m.val[1], m.val[2]>>) ]
    ELSE [ raised |-> FALSE, val |-> ch_res ]

\* mutant of Reduce: the candidates are reduced whatever their faces
Reduce_anyface(n, ch_res) ==
    IF Len(ch_res) > 1
    THEN LET m == PyMin([ i \in 1 .. Len(ch_res) |-> <<ch_res[i][3], ch_res[i][4]>> ])
         IN  IF m.raised THEN [ raised |-> TRUE, val |-> <<>> ]
             ELSE [ raised |-> FALSE, val |-> << <<n.nc, ch_res[1][2], m.val[1], m.val[2]>> >> ]
    ELSE [ raised |-> FALSE, val |-> ch_res ]

\* lines 84-96: one prefix entry for a single face, else every candidate
Reduce(n, ch_res) ==
    LET subfids == SubFids(ch_res)
    IN  IF Cardinality(subfids) = 1 /\ Len(ch_res) > 1
        THEN LET sf == CHOOSE f \in subfids : TRUE
                 m == PyMin([ i \in 1 .. Len(ch_res) |-> <<ch_res[i][3], ch_res[i][4]>> ])
             IN  IF m.raised THEN [ raised |-> TRUE, val |-> <<>> ]
                 ELSE [ raised |-> FALSE, val |-> << <<n.nc, sf, m.val[1], m.val[2]>> >> ]
        ELSE [ raised |-> FALSE, val |-> ch_res ]

\* _RIBTreeNode.collapse: names are relative to the node's parent; "raised"
\* stands for the TypeError of min() at line 91
collapse(t, node, shortest) ==
    LET n == t[node]
    IN  IF Len(n.children) = 0
        THEN [ raised |-> FALSE, val |-> OwnEntries(n, shortest) ]
        ELSE LET c == Candidates(t, node, shortest)
             IN  IF c.raised THEN c ELSE Reduce(n, c.val)

RECURSIVE ageing(_, _, _), AgeChildren(_, _, _, _)

\* lines 105-106: ageing of every child, over a copy of the children list
AgeChildren(t, node, kids, time) ==
    IF kids = <<>> THEN t
    ELSE AgeChildren(ageing(t, node \o <<Head(kids)>>, time), node, Tail(kids), time)

\* mutant of Outdated: an entry whose timeout is now is kept
Outdated_lt(e, time) == e.timeout # None /\ Val(e.timeout) < time

\* line 110: the entry is outdated
Outdated(e, time) == e.timeout # None /\ Val(e.timeout) <= time

\* lines 115-117: the node unlinks itself from its parent
Unlink(t, node) ==
    LET p == Val(t[node].parent)
        t1 == [ t EXCEPT ![p].children = DelKey(@, Val(t[node].nc)) ]
    IN  [ x \in DOMAIN t1 \ {node} |-> t1[x] ]

\* mutant of ageing: a node left without children and entries stays linked
ageing_keep(t, node, time) ==
    LET t1 == AgeChildren(t, node, t[node].children, time)
    IN  [ t1 EXCEPT ![node].dv = SelectSeq(@, LAMBDA e : ~Outdated(e, time)) ]

\* _RIBTreeNode.ageing
ageing(t, node, time) ==
    LET t1 == AgeChildren(t, node, t[node].children, time)
        t2 == [ t1 EXCEPT ![node].dv = SelectSeq(@, LAMBDA e : ~Outdated(e, time)) ]
    IN  IF t2[node].parent # None /\ Len(t2[node].dv) = 0 /\ Len(t2[node].children) = 0
        THEN Unlink(t2, node)
        ELSE t2

\* ------------------------------------------------ TreeRoutingInformationBase

\* ForwardingInformationBaseEntry(name, fid, static=False)
ForwardingInformationBaseEntry(name, fid, static) ==
    [ name |-> name, fid |-> fid, static |-> static ]

\* mutant of build_fib: the entries are marked static
build_fib_static(t, shortest) ==
    LET c == collapse(t, Root, shortest)
    IN  IF c.raised THEN c
        ELSE [ raised |-> FALSE,
               val |-> [ i \in 1 .. Len(c.val) |->
                           ForwardingInformationBaseEntry(c.val[i][1], c.val[i][2], TRUE) ] ]

\* TreeRoutingInformationBase.build_fib, over __iter__
build_fib(t, shortest) ==
    LET c == collapse(t, Root, shortest)
    IN  IF c.raised THEN c
        ELSE [ raised |-> FALSE,
               val |-> [ i \in 1 .. Len(c.val) |->
                           ForwardingInformationBaseEntry(c.val[i][1], c.val[i][2], FALSE) ] ]

\* the number of distance-vector entries in the tree
Routes(t) ==
    Cardinality(UNION { { <<n, i>> : i \in 1 .. Len(t[n].dv) } : n \in DOMAIN t })

HasRoute(t, name, fid) ==
    name \in DOMAIN t /\ \E i \in 1 .. Len(t[name].dv) : t[name].dv[i].fid = fid

\* ---------------------------------------------------- AutoconfigServerLayer

\* Name.is_prefix_of: componentwise
is_prefix_of(a, b) == Len(a) <= Len(b) /\ \A i \in 1 .. Len(a) : a[i] = b[i]

\* Name.__getitem__ with a slice [k:] (k counted from 0)
NameFrom(name, k) == SubSeq(name, k + 1, Len(name))

AUTOCONFIG_PREFIX == <<"autoconfig">>
\* mutant of AUTOCONFIG_SERVICE_LIST_PREFIX: the list prefix is /autoconfig
AUTOCONFIG_SERVICE_LIST_PREFIX_root == <<"autoconfig">>

AUTOCONFIG_SERVICE_LIST_PREFIX == <<"autoconfig", "services">>
AUTOCONFIG_SERVICE_REGISTRATION_PREFIX == <<"autoconfig", "service">>

\* timedelta(hours=1), in hours
service_registration_timeout == 1

\* the layer's configuration: address, the link layer's port, the prefixes
announce_addr == "127.0.0.1"
link_port == 9000
service_registration_prefixes == << <<"test">> >>

\* Packets: Interest(name), Content(name) with content, Nack(name, reason)
\* with the interest it answers
Interest(name) ==
    [ kind |-> "Interest", name |-> name, content |-> None, reason |-> None,
      interest |-> None ]
Content(name, content) ==
    [ kind |-> "Content", name |-> name, content |-> content, reason |-> None,
      interest |-> None ]
Nack(name, reason, interest) ==
    [ kind |-> "Nack", name |-> name, content |-> None, reason |-> Some(reason),
      interest |-> interest ]

\* str.split(':') of the name components that occur
Split(c) ==
    CASE c = "h1:9000" -> <<"h1", "9000">>
      [] c = "h2:9000" -> <<"h2", "9000">>
      [] c = "udp4://h1:9000" -> <<"udp4", "//h1", "9000">>
      [] OTHER -> <<c>>

\* int() of a string: None stands for the ValueError
ParseInt(x) == IF x = "9000" THEN Some(9000) ELSE None

\* UDP4LinkLayer.get_or_create_fid(addr, static): the face of the address, a
\* new one when it has none; face ids are the positions in the table
get_or_create_fid(faces, addr, static) ==
    IF \E i \in 1 .. Len(faces) : faces[i].addr = addr
    THEN LET i == CHOOSE i \in 1 .. Len(faces) : faces[i].addr = addr
         IN  [ fid |-> i,
               faces |-> [ faces EXCEPT ![i].static = faces[i].static \/ static ] ]
    ELSE [ fid |-> Len(faces) + 1,
           faces |-> Append(faces, [ addr |-> addr, static |-> static ]) ]

\* BaseForwardingInformationBase.add_fib_entry: one entry per (prefix, face)
add_fib_entry(fib, name, fid, static) ==
    IF \E i \in 1 .. Len(fib) : fib[i].name = name /\ fib[i].fid = fid
    THEN [ i \in 1 .. Len(fib) |->
             IF fib[i].name = name /\ fib[i].fid = fid
             THEN ForwardingInformationBaseEntry(name, fid, fib[i].static \/ static)
             ELSE fib[i] ]
    ELSE Append(fib, ForwardingInformationBaseEntry(name, fid, static))

\* the result of a handler: the packet it returns, or raised, and the layer
Returned(l, reply) == [ raised |-> FALSE, reply |-> Some(reply), layer |-> l ]
Raised(l) == [ raised |-> TRUE, reply |-> None, layer |-> l ]

\* mutant of handle_autoconfig: the p lines before the r lines
handle_autoconfig_prefixes_first(l, interest) ==
    LET routes == [ i \in 1 .. Len(l.fib) |-> <<"r", l.fib[i].name>> ]
        prefixes == [ i \in 1 .. Len(service_registration_prefixes) |->
                        <<"p", service_registration_prefixes[i]>> ]
        content == << <<announce_addr, link_port>> >> \o prefixes \o routes
    IN  Returned(l, Content(interest.name, Some(content)))

\* AutoconfigServerLayer._handle_autoconfig
handle_autoconfig(l, interest) ==
    LET routes == [ i \in 1 .. Len(l.fib) |-> <<"r", l.fib[i].name>> ]
        prefixes == [ i \in 1 .. Len(service_registration_prefixes) |->
                        <<"p", service_registration_prefixes[i]>> ]
        content == << <<announce_addr, link_port>> >> \o routes \o prefixes
    IN  Returned(l, Content(interest.name, Some(content)))

\* AutoconfigServerLayer._handle_service_list, with datetime.now() read as time
handle_service_list(l, interest, time) ==
    LET srvprefix == NameFrom(interest.name, Len(AUTOCONFIG_SERVICE_LIST_PREFIX))
        listed == SelectSeq(l.known_services,
                            LAMBDA k : /\ ~(time > k.timeout)
                                       /\ (Len(srvprefix) = 0 \/ is_prefix_of(srvprefix, k.name)))
        content == [ i \in 1 .. Len(listed) |-> <<listed[i].name>> ]
    IN  IF Len(content) > 0
        THEN Returned(l, Content(interest.name, Some(content)))
        ELSE Returned(l, Nack(interest.name, "NO_CONTENT", None))

\* lines 123-132: the first known service of that name decides
KnownAt(known, srvname) ==
    IF \E i \in 1 .. Len(known) : known[i].name = srvname
    THEN Some(CHOOSE i \in 1 .. Len(known) :
                  /\ known[i].name = srvname
                  /\ \A j \in 1 .. i - 1 : known[j].name # srvname)
    ELSE None

\* mutant of handle_service_registration: the registration prefixes are not
\* consulted
handle_service_registration_anyprefix(l, interest, time) ==
    LET k == Len(AUTOCONFIG_SERVICE_REGISTRATION_PREFIX)
    IN  IF Len(interest.name) < k + 1 THEN Raised(l)
        ELSE
        LET parts == Split(interest.name[k + 1])
        IN  IF Len(parts) # 2 \/ ParseInt(parts[Len(parts)]) = None THEN Raised(l)
            ELSE
            LET srvaddr == <<parts[1], Val(ParseInt(parts[2]))>>
                srvname == NameFrom(interest.name, k + 1)
                f == get_or_create_fid(l.faces, srvaddr, TRUE)
            IN  Returned([ l EXCEPT !.faces = f.faces,
                                    !.fib = add_fib_entry(l.fib, srvname, f.fid, TRUE) ],
                         Content(interest.name, None))

\* AutoconfigServerLayer._handle_service_registration
handle_service_registration(l, interest, time) ==
    LET k == Len(AUTOCONFIG_SERVICE_REGISTRATION_PREFIX)
    IN  IF Len(interest.name) < k + 1 THEN Raised(l)             \* IndexError
        ELSE
        LET parts == Split(interest.name[k + 1])
        IN  IF Len(parts) # 2 THEN Raised(l)                     \* ValueError
            ELSE IF ParseInt(parts[2]) = None THEN Raised(l)     \* ValueError
            ELSE
            LET srvaddr == <<parts[1], Val(ParseInt(parts[2]))>>
                srvname == NameFrom(interest.name, k + 1)
                allowed == { i \in 1 .. Len(service_registration_prefixes) :
                               \/ Len(service_registration_prefixes[i]) = 0
                               \/ is_prefix_of(service_registration_prefixes[i], srvname) }
                at == KnownAt(l.known_services, srvname)
            IN  IF allowed = {}
                THEN Returned(l, Nack(interest.name, "NO_ROUTE", Some(interest)))
                ELSE IF at # None /\ l.known_services[Val(at)].addr # srvaddr
                THEN Returned(l, Nack(interest.name, "DUPLICATE", Some(interest)))
                ELSE
                LET known == IF at = None THEN l.known_services
                             ELSE [ l.known_services EXCEPT
                                      ![Val(at)].timeout = time + service_registration_timeout ]
                    f == get_or_create_fid(l.faces, srvaddr, TRUE)
                IN  Returned([ l EXCEPT !.known_services = known,
                                        !.faces = f.faces,
                                        !.fib = add_fib_entry(l.fib, srvname, f.fid, TRUE) ],
                             Content(interest.name, None))

\* what data_from_lower leaves: the layer, and whether an exception escaped
Done(l) == [ raised |-> FALSE, layer |-> l ]

\* a reply put on another face than the one given
PutReply_elsewhere(r, fid) ==
    IF r.raised THEN [ raised |-> TRUE, layer |-> r.layer ]
    ELSE Done([ r.layer EXCEPT !.to_lower = Append(@, <<fid + 1, Val(r.reply)>>) ])

\* to_lower.put([fid, reply]) of what a handler returned
PutReply(r, fid) ==
    IF r.raised THEN [ raised |-> TRUE, layer |-> r.layer ]
    ELSE Done([ r.layer EXCEPT !.to_lower = Append(@, <<fid, Val(r.reply)>>) ])

\* lines 62-71: the three branches for an Interest, one after the other
InterestBranches(l, fid, packet, time) ==
    LET r1 == IF AUTOCONFIG_PREFIX = packet.name
              THEN PutReply(handle_autoconfig(l, packet), fid)
              ELSE Done(l)
        r2 == IF r1.raised THEN r1
              ELSE IF is_prefix_of(AUTOCONFIG_SERVICE_LIST_PREFIX, packet.name)
              THEN PutReply(handle_service_list(r1.layer, packet, time), fid)
              ELSE r1
        r3 == IF r2.raised THEN r2
              ELSE IF is_prefix_of(AUTOCONFIG_SERVICE_REGISTRATION_PREFIX, packet.name)
              THEN PutReply(handle_service_registration(r2.layer, packet, time), fid)
              ELSE r2
    IN  r3

\* mutant of data_from_lower: an unrelated packet goes up whatever
\* interest_to_app says
data_from_lower_up(l, to_app, data, time) ==
    IF ~data.is_seq \/ data.len # 2 THEN Done(l)
    ELSE IF data.fid = None \/ data.packet = None THEN Done(l)
    ELSE
    LET fid == Val(data.fid)
        packet == Val(data.packet)
        l1 == IF ~is_prefix_of(AUTOCONFIG_PREFIX, packet.name)
              THEN [ l EXCEPT !.to_higher = Append(@, <<fid, packet>>) ]
              ELSE l
    IN  IF packet.kind = "Interest" THEN InterestBranches(l1, fid, packet, time)
        ELSE Done(l1)

\* mutant of data_from_lower: the types of the two elements are not checked,
\* a first element that is no integer is taken as face 0
data_from_lower_untyped(l, to_app, data, time) ==
    IF ~data.is_seq \/ data.len # 2 THEN Done(l)
    ELSE IF data.packet = None THEN Done(l)
    ELSE
    LET fid == IF data.fid = None THEN 0 ELSE Val(data.fid)
        packet == Val(data.packet)
        msg == <<fid, packet>>
        l1 == IF ~is_prefix_of(AUTOCONFIG_PREFIX, packet.name)
              THEN IF to_app THEN [ l EXCEPT !.to_higher = Append(@, msg) ]
                   ELSE [ l EXCEPT !.to_lower = Append(@, msg) ]
              ELSE l
    IN  IF packet.kind = "Interest" THEN InterestBranches(l1, fid, packet, time)
        ELSE Done(l1)

\* AutoconfigServerLayer.data_from_lower: data is [is_seq, len, fid, packet],
\* fid and packet None when the element is not an int, not a Packet
data_from_lower(l, to_app, data, time) ==
    IF ~data.is_seq \/ data.len # 2 THEN Done(l)
    ELSE IF data.fid = None \/ data.packet = None THEN Done(l)
    ELSE
    LET fid == Val(data.fid)
        packet == Val(data.packet)
        msg == <<fid, packet>>
        l1 == IF ~is_prefix_of(AUTOCONFIG_PREFIX, packet.name)
              THEN IF to_app THEN [ l EXCEPT !.to_higher = Append(@, msg) ]
                   ELSE [ l EXCEPT !.to_lower = Append(@, msg) ]
              ELSE l
    IN  IF packet.kind = "Interest" THEN InterestBranches(l1, fid, packet, time)
        ELSE Done(l1)

\* mutant of data_from_higher: the message overtakes the waiting ones
data_from_higher_first(l, msg) == [ l EXCEPT !.to_lower = <<msg>> \o @ ]

\* AutoconfigServerLayer.data_from_higher
data_from_higher(l, msg) == [ l EXCEPT !.to_lower = Append(@, msg) ]

\* --------------------------------------------------------- what is received

\* the face the messages from below arrive on, and the one from above
ArrivalFace == 42
HigherFace == 1337

Pair(fid, packet) ==
    [ is_seq |-> TRUE, len |-> 2, fid |-> Some(fid), packet |-> Some(packet) ]

RegistrationNames ==
    { <<"autoconfig", "service", "h1:9000", "test", "repo">>,
      <<"autoconfig", "service", "h2:9000", "test", "repo">>,
      <<"autoconfig", "service", "h1:9000", "other", "repo">>,
      <<"autoconfig", "service", "udp4://h1:9000", "test", "repo">>,
      <<"autoconfig", "service">> }

InterestNames ==
    RegistrationNames \cup
    { <<"autoconfig">>, <<"autoconfig", "forwarders">>, <<"autoconfig", "services">>,
      <<"autoconfig", "services", "test">>, <<"foo", "bar">> }

Mistyped ==
    { [ is_seq |-> FALSE, len |-> 0, fid |-> None, packet |-> None ],
      [ is_seq |-> TRUE, len |-> 3, fid |-> Some(ArrivalFace),
        packet |-> Some(Interest(<<"foo", "bar">>)) ],
      [ is_seq |-> TRUE, len |-> 2, fid |-> None, packet |-> Some(Interest(<<"foo", "bar">>)) ],
      [ is_seq |-> TRUE, len |-> 2, fid |-> Some(ArrivalFace), packet |-> None ] }

FromLower ==
    { Pair(ArrivalFace, Interest(n)) : n \in InterestNames }
    \cup { Pair(ArrivalFace, Content(n, Some(<<"foo bar">>))) :
             n \in { <<"foo", "bar">>, <<"autoconfig">> } }
    \cup { Pair(ArrivalFace, Nack(<<"foo", "bar">>, "NO_CONTENT", None)) }
    \cup Mistyped

FromHigher ==
    { <<HigherFace, Content(<<"foo", "bar">>, Some(<<"foo bar">>))>>,
      <<HigherFace, Interest(<<"foo", "bar">>)>> }

\* ------------------------------------------------------------------ actions

\* The record of a call: "time" is the clock ageing read and "removed" the
\* number of nodes it unlinked, "ret" is what build_fib returned and "again"
\* says that it directly follows a build_fib.
NoCall == [ op |-> "init", time |-> 0, removed |-> 0, ret |-> None, again |-> FALSE ]

\* AutoconfigServerLayer.__init__, with empty queues and an empty FIB
NewLayer ==
    [ known_services |-> <<>>, fib |-> <<>>, faces |-> <<>>,
      to_lower |-> <<>>, to_higher |-> <<>> ]

\* no forwarder is built, no client, no heartbeat layer
NoForwarder == None
NoClient == None
NoHeartbeat == None

NothingHandled == [ from |-> "none", data |-> None, raised |-> FALSE ]

Init ==
    /\ tree = (Root :> RIBTreeNode(None))
    /\ shortest_only \in BOOLEAN
    /\ last = NoCall
    /\ layer = NewLayer
    /\ interest_to_app = FALSE
    /\ now = 0
    /\ handled = NothingHandled
    /\ acked = {}
    /\ forwarder = NoForwarder
    /\ client = NoClient
    /\ heartbeat = NoHeartbeat

\* TreeRoutingInformationBase.insert
Insert(name, fid, distance, timeout) ==
    /\ HasRoute(tree, name, fid) \/ Routes(tree) < MaxRoutes
    /\ tree' = insert(tree, name, fid, distance, timeout)
    /\ last' = [ NoCall EXCEPT !.op = "insert" ]
    /\ UNCHANGED <<shortest_only, acvars, fwdvars, clvars, hbvars>>

\* TreeRoutingInformationBase.ageing, with datetime.utcnow() read as time
Ageing(time) ==
    /\ tree' = ageing(tree, Root, time)
    /\ last' = [ NoCall EXCEPT !.op = "ageing", !.time = time,
                               !.removed = Cardinality(DOMAIN tree \ DOMAIN tree') ]
    /\ UNCHANGED <<shortest_only, acvars, fwdvars, clvars, hbvars>>

\* TreeRoutingInformationBase.build_fib
BuildFib ==
    /\ tree' = tree
    /\ last' = [ NoCall EXCEPT !.op = "build_fib",
                               !.ret = Some(build_fib(tree, shortest_only)),
                               !.again = (last.op = "build_fib") ]
    /\ UNCHANGED <<shortest_only, acvars, fwdvars, clvars, hbvars>>

Next ==
    \/ \E name \in RouteNames, fid \in Faces, distance \in Dists, timeout \in Timeouts :
           Insert(name, fid, distance, timeout)
    \/ \E time \in Times : Ageing(time)
    \/ BuildFib

Spec == Init /\ [][Next]_vars

\* TreeRoutingInformationBase() as constructed by default: shortest_only=True
DefaultInit == Init /\ shortest_only

DefaultSpec == DefaultInit /\ [][Next]_vars

\* the autoconfig layer as ICNForwarder or a test builds it
ACInit ==
    /\ tree = (Root :> RIBTreeNode(None))
    /\ shortest_only = TRUE
    /\ last = NoCall
    /\ layer = NewLayer
    /\ interest_to_app \in BOOLEAN
    /\ now = 0
    /\ handled = NothingHandled
    /\ acked = {}
    /\ forwarder = NoForwarder
    /\ client = NoClient
    /\ heartbeat = NoHeartbeat

\* the messages a call added to a queue
Added(before, after) == SubSeq(after, Len(before) + 1, Len(after))

\* a message asks for a service registration
IsRegistration(data) ==
    /\ data.is_seq /\ data.len = 2 /\ data.fid # None /\ data.packet # None
    /\ Val(data.packet).kind = "Interest"
    /\ is_prefix_of(AUTOCONFIG_SERVICE_REGISTRATION_PREFIX, Val(data.packet).name)

\* the registration a message asks for, when the layer answered it with a
\* Content of the Interest's name
Acknowledged(data, r, time) ==
    IF /\ ~r.raised
       /\ IsRegistration(data)
       /\ \E i \in 1 .. Len(Added(layer.to_lower, r.layer.to_lower)) :
              LET m == Added(layer.to_lower, r.layer.to_lower)[i]
              IN  m[2].kind = "Content" /\ m[2].name = Val(data.packet).name
    THEN LET name == Val(data.packet).name
             parts == Split(name[3])
         IN  { [ name |-> NameFrom(name, 3), addr |-> <<parts[1], Val(ParseInt(parts[2]))>>,
                 time |-> time ] }
    ELSE {}

\* the layer takes a message from its lower queue: data_from_lower
HandleFromLower(data) ==
    /\ Len(layer.to_lower) < MaxQueue
    /\ Len(layer.to_higher) < MaxQueue
    /\ LET r == data_from_lower(layer, interest_to_app, data, now)
       IN  /\ layer' = r.layer
           /\ handled' = [ from |-> "lower", data |-> Some(data),
                           raised |-> r.raised ]
           /\ acked' = LET new == Acknowledged(data, r, now)
                       IN  { a \in acked : \A b \in new : a.name # b.name \/ a.addr # b.addr }
                               \cup new
    /\ UNCHANGED <<ribvars, fwdvars, clvars, hbvars, interest_to_app, now>>

\* the layer takes a message from its higher queue: data_from_higher
HandleFromHigher(msg) ==
    /\ Len(layer.to_lower) <= MaxQueue
    /\ layer' = data_from_higher(layer, msg)
    /\ handled' = [ from |-> "higher", data |-> Some(Pair(msg[1], msg[2])),
                    raised |-> FALSE ]
    /\ UNCHANGED <<ribvars, fwdvars, clvars, hbvars, interest_to_app, now, acked>>

\* the ICN layer takes the head of to_lower
LowerTakes ==
    /\ Len(layer.to_lower) > 0
    /\ layer' = [ layer EXCEPT !.to_lower = Tail(@) ]
    /\ UNCHANGED <<ribvars, fwdvars, clvars, hbvars, interest_to_app, now, handled, acked>>

\* the layer above takes the head of to_higher
HigherTakes ==
    /\ Len(layer.to_higher) > 0
    /\ layer' = [ layer EXCEPT !.to_higher = Tail(@) ]
    /\ UNCHANGED <<ribvars, fwdvars, clvars, hbvars, interest_to_app, now, handled, acked>>

\* the clock advances
Tick ==
    /\ now < MaxClock
    /\ now' = now + 1
    /\ UNCHANGED <<ribvars, fwdvars, clvars, hbvars, layer, interest_to_app, handled, acked>>

ACNext ==
    \/ \E data \in FromLower : HandleFromLower(data)
    \/ \E msg \in FromHigher : HandleFromHigher(msg)
    \/ LowerTakes
    \/ HigherTakes
    \/ Tick

ACSpec == ACInit /\ [][ACNext]_vars

\* The layer's process handles every message that waits for it
\* (LayerProcess's loop over its queues), and the neighbouring layers
\* take what the layer enqueues.
ACFairSpec ==
    /\ ACSpec
    /\ WF_vars(\E data \in FromLower : HandleFromLower(data))
    /\ WF_vars(\E msg \in FromHigher : HandleFromHigher(msg))
    /\ WF_vars(LowerTakes)
    /\ WF_vars(HigherTakes)

\* ------------------------------------------------------------ ICNForwarder

\* AutoconfigServerLayer.__init__, lines 42-44: the number of
\* setsockopt(SO_BROADCAST) calls it makes, given the link layer or None
enable_broadcast(linklayer) == IF linklayer # None THEN 1 ELSE 0

\* the queues ICNForwarder.__init__ creates and wires to a stage
Queues(autoconfig) ==
    { "q_link_packet_up", "q_packet_link_down", "q_packet_icn_up", "q_icn_packet_down" }
        \cup IF autoconfig THEN { "q_icn_autoconfig_up", "q_autoconfig_icn_down" } ELSE {}

\* mutant of ICNForwarder: the autoconfig layer is built without the link layer
ICNForwarder_nolink(autoconfig) ==
    [ autoconfig |-> autoconfig,
      so_broadcast |-> IF autoconfig THEN enable_broadcast(None) ELSE 0,
      running |-> {},
      started |-> <<>>,
      stopped |-> <<>>,
      queues |-> [ q \in Queues(autoconfig) |-> 0 ],
      maxsize |-> [ q \in Queues(autoconfig) |-> 0 ],
      closed |-> <<>>,
      pc |-> "built" ]

\* ICNForwarder.__init__: no process runs, the queues are empty and open, and
\* the autoconfig layer, when asked for, is built on the link layer;
\* so_broadcast counts the setsockopt(SO_BROADCAST) calls on the link socket
\* and maxsize is the maxsize each queue is created with: multiprocessing.Queue()
\* is called without one, which is 0, a queue without a limit
ICNForwarder(autoconfig) ==
    [ autoconfig |-> autoconfig,
      so_broadcast |-> IF autoconfig THEN enable_broadcast(Some("linklayer")) ELSE 0,
      running |-> {},
      started |-> <<>>,
      stopped |-> <<>>,
      queues |-> [ q \in Queues(autoconfig) |-> 0 ],
      maxsize |-> [ q \in Queues(autoconfig) |-> 0 ],
      closed |-> <<>>,
      pc |-> "built" ]

\* the queues of each stage, as ICNForwarder.__init__ sets them
Wiring(autoconfig) ==
    [ linklayer |->
          [ from_lower |-> None, to_lower |-> None,
            to_higher |-> Some("q_link_packet_up"),
            from_higher |-> Some("q_packet_link_down") ],
      packetencodinglayer |->
          [ to_lower |-> Some("q_packet_link_down"),
            from_lower |-> Some("q_link_packet_up"),
            to_higher |-> Some("q_packet_icn_up"),
            from_higher |-> Some("q_icn_packet_down") ],
      icnlayer |->
          [ to_lower |-> Some("q_icn_packet_down"),
            from_lower |-> Some("q_packet_icn_up"),
            to_higher |-> IF autoconfig THEN Some("q_icn_autoconfig_up") ELSE None,
            from_higher |-> IF autoconfig THEN Some("q_autoconfig_icn_down") ELSE None ],
      autoconfiglayer |->
          [ from_lower |-> Some("q_icn_autoconfig_up"),
            to_lower |-> Some("q_autoconfig_icn_down"),
            to_higher |-> None, from_higher |-> None ] ]

\* ICNForwarder.start_forwarder: the start_process calls, in order
start_forwarder(autoconfig) ==
    <<"linklayer", "packetencodinglayer", "icnlayer", "mgmt">>
        \o IF autoconfig THEN <<"autoconfiglayer">> ELSE <<>>

\* ICNForwarder.stop_forwarder: the stop_process calls, in order
stop_forwarder(autoconfig) ==
    <<"mgmt", "linklayer", "packetencodinglayer", "icnlayer">>
        \o IF autoconfig THEN <<"autoconfiglayer">> ELSE <<>>

\* ICNForwarder.stop_forwarder: the close calls, in order
close_queues(autoconfig) ==
    <<"q_link_packet_up", "q_packet_link_down", "q_packet_icn_up", "q_icn_packet_down">>
        \o IF autoconfig THEN <<"q_icn_autoconfig_up", "q_autoconfig_icn_down">> ELSE <<>>

\* A forwarder as constructed, with or without autoconfig.  The stages are
\* processes of their own, so the calls of start_forwarder and stop_forwarder
\* are steps between which the running stages act.
FwdInit ==
    /\ tree = (Root :> RIBTreeNode(None))
    /\ shortest_only = TRUE
    /\ last = NoCall
    /\ layer = NewLayer
    /\ interest_to_app = FALSE
    /\ now = 0
    /\ handled = NothingHandled
    /\ acked = {}
    /\ forwarder \in { ICNForwarder(autoconfig) : autoconfig \in BOOLEAN }
    /\ client = NoClient
    /\ heartbeat = NoHeartbeat

\* the next start_process call of start_forwarder
StartProcess ==
    /\ forwarder.pc \in { "built", "starting" }
    /\ LET order == start_forwarder(forwarder.autoconfig)
           i == Len(forwarder.started) + 1
       IN  forwarder' = [ forwarder EXCEPT
                            !.running = @ \cup { order[i] },
                            !.started = Append(@, order[i]),
                            !.pc = IF i = Len(order) THEN "running" ELSE "starting" ]
    /\ UNCHANGED <<ribvars, acvars, clvars, hbvars>>

\* the next stop_process call of stop_forwarder
StopProcess ==
    /\ forwarder.pc \in { "running", "stopping" }
    /\ LET order == stop_forwarder(forwarder.autoconfig)
           i == Len(forwarder.stopped) + 1
       IN  forwarder' = [ forwarder EXCEPT
                            !.running = @ \ { order[i] },
                            !.stopped = Append(@, order[i]),
                            !.pc = IF i = Len(order) THEN "closing" ELSE "stopping" ]
    /\ UNCHANGED <<ribvars, acvars, clvars, hbvars>>

\* the next close call of stop_forwarder
CloseQueue ==
    /\ forwarder.pc = "closing"
    /\ LET order == close_queues(forwarder.autoconfig)
           i == Len(forwarder.closed) + 1
       IN  forwarder' = [ forwarder EXCEPT
                            !.closed = Append(@, order[i]),
                            !.pc = IF i = Len(order) THEN "stopped" ELSE "closing" ]
    /\ UNCHANGED <<ribvars, acvars, clvars, hbvars>>

\* the running link layer receives a packet from the network
Receive ==
    /\ "linklayer" \in forwarder.running
    /\ forwarder.queues["q_link_packet_up"] < MaxQueue
    /\ forwarder' = [ forwarder EXCEPT !.queues["q_link_packet_up"] = @ + 1 ]
    /\ UNCHANGED <<ribvars, acvars, clvars, hbvars>>

\* the running link layer sends a packet from its higher queue to the network
Send ==
    /\ "linklayer" \in forwarder.running
    /\ forwarder.queues["q_packet_link_down"] > 0
    /\ forwarder' = [ forwarder EXCEPT !.queues["q_packet_link_down"] = @ - 1 ]
    /\ UNCHANGED <<ribvars, acvars, clvars, hbvars>>

\* a running stage takes a message from its lower queue and passes it on: up
\* when a higher queue is wired to it, back down otherwise
Up(stage) ==
    /\ stage \in forwarder.running
    /\ LET w == Wiring(forwarder.autoconfig)[stage]
           to == IF w.to_higher # None THEN Val(w.to_higher) ELSE Val(w.to_lower)
       IN  /\ w.from_lower # None
           /\ forwarder.queues[Val(w.from_lower)] > 0
           /\ forwarder.queues[to] < MaxQueue
           /\ forwarder' = [ forwarder EXCEPT !.queues[Val(w.from_lower)] = @ - 1,
                                              !.queues[to] = @ + 1 ]
    /\ UNCHANGED <<ribvars, acvars, clvars, hbvars>>

\* a running stage passes a message from its higher queue down
Down(stage) ==
    /\ stage \in forwarder.running
    /\ LET w == Wiring(forwarder.autoconfig)[stage]
       IN  /\ w.from_higher # None
           /\ w.to_lower # None
           /\ forwarder.queues[Val(w.from_higher)] > 0
           /\ forwarder.queues[Val(w.to_lower)] < MaxQueue
           /\ forwarder' = [ forwarder EXCEPT !.queues[Val(w.from_higher)] = @ - 1,
                                              !.queues[Val(w.to_lower)] = @ + 1 ]
    /\ UNCHANGED <<ribvars, acvars, clvars, hbvars>>

FwdNext ==
    \/ StartProcess
    \/ StopProcess
    \/ CloseQueue
    \/ Receive
    \/ Send
    \/ \E stage \in DOMAIN Wiring(TRUE) : Up(stage)
    \/ \E stage \in DOMAIN Wiring(TRUE) : Down(stage)

FwdSpec == FwdInit /\ [][FwdNext]_vars

\* ------------------------------------------------------ AutoconfigRepoLayer

\* the face the client broadcasts its solicitation on
BroadcastFace == 0

\* the name of the repository, its own address as it writes it into a
\* registration name, and the prefix it serves before it is configured
repo_name == "testrepo"
self_remote == "udp4://127.0.1.1:1337"
Unconfigured == <<"unconfigured">>

FORWARDERS == <<"autoconfig", "forwarders">>

\* /autoconfig/service/<self_addr:port>/<prefix>/<repo_name>
registration_name(prefix) ==
    AUTOCONFIG_SERVICE_REGISTRATION_PREFIX \o <<self_remote>> \o prefix \o <<repo_name>>

\* the prefix a registration name asks for, with the repository's name
served_prefix(name) == NameFrom(name, Len(AUTOCONFIG_SERVICE_REGISTRATION_PREFIX) + 1)

\* the names of the lines of a manifest that carry the given tag, in order
tagged(lines, tag) ==
    LET sel == SelectSeq(lines, LAMBDA line : line[1] = tag)
    IN  [ i \in 1 .. Len(sel) |-> sel[i][2] ]

\* mutant of select_prefixes: with both flags on, the global prefixes are
\* registered as well
select_prefixes_both(register_local, register_global, lines) ==
    (IF register_local THEN tagged(lines, "pl") ELSE <<>>)
        \o (IF register_global THEN tagged(lines, "pg") ELSE <<>>)

\* the prefixes the client registers under: the local ones when
\* register_local is on, else the global ones when register_global is on
select_prefixes(register_local, register_global, lines) ==
    IF register_local THEN tagged(lines, "pl")
    ELSE IF register_global THEN tagged(lines, "pg")
    ELSE <<>>

\* mutant of renewal_delay: the renewal waits for the whole lease
renewal_delay_lease(lease) == lease

\* the time after an acknowledgement at which the renewal is sent: three
\* quarters of the lease
renewal_delay(lease) == (3 * lease) \div 4

\* AutoconfigRepoLayer as constructed over a repository serving /unconfigured
NewClient(register_local, register_global) ==
    [ register_local |-> register_local,
      register_global |-> register_global,
      started |-> FALSE,
      prefix |-> Unconfigured,
      forwarder |-> None,      \* the face of the forwarder that advertised
      pending |-> {},          \* registration names sent and not answered
      renewals |-> {},         \* renewals scheduled: name and time due
      granted |-> {},          \* leases acknowledged and not renewed yet
      to_lower |-> <<>>,
      now |-> 0,
      last |-> [ op |-> "new", arg |-> None ] ]

\* the advertisements a forwarder may send: the lines after the first
Manifests ==
    { << <<"r", <<"global">> >>, <<"pl", <<"test">> >> >>,
      << <<"r", <<"global">> >>, <<"pl", <<"test">> >>, <<"pg", <<"routed">> >> >>,
      << <<"pl", <<"test">> >>, <<"pl", <<"lab">> >>, <<"pg", <<"routed">> >> >>,
      << <<"r", <<"global">> >>, <<"pg", <<"routed">> >> >> }

\* the registration names replies may carry, and the leases ACKs may grant
ReplyNames == { registration_name(p) : p \in { <<"test">>, <<"lab">>, <<"routed">> } }
Leases == { 2, 4 }

ClientInit ==
    /\ tree = (Root :> RIBTreeNode(None))
    /\ shortest_only = TRUE
    /\ last = NoCall
    /\ layer = NewLayer
    /\ interest_to_app = FALSE
    /\ now = 0
    /\ handled = NothingHandled
    /\ acked = {}
    /\ forwarder = NoForwarder
    /\ client \in { NewClient(rl, rg) : rl, rg \in BOOLEAN }
    /\ heartbeat = NoHeartbeat

\* start_process: the solicitation is the first packet on the lower queue
ClientStart ==
    /\ ~client.started
    /\ client' = [ client EXCEPT
                     !.started = TRUE,
                     !.to_lower = Append(@, <<BroadcastFace, Interest(FORWARDERS)>>),
                     !.last = [ op |-> "start", arg |-> None ] ]
    /\ UNCHANGED <<ribvars, acvars, fwdvars, hbvars>>

\* a forwarder advertisement arrives from the forwarder's face: one
\* registration Interest per selected prefix goes to that face
Advertisement(lines) ==
    /\ client.started
    /\ Len(client.to_lower) < MaxQueue
    /\ LET sel == select_prefixes(client.register_local, client.register_global, lines)
           regs == [ i \in 1 .. Len(sel) |->
                       <<ArrivalFace, Interest(registration_name(sel[i]))>> ]
       IN  client' = [ client EXCEPT
                         !.forwarder = Some(ArrivalFace),
                         !.pending = @ \cup { regs[i][2].name : i \in 1 .. Len(regs) },
                         !.to_lower = @ \o regs,
                         !.last = [ op |-> "advertisement", arg |-> Some(lines) ] ]
    /\ UNCHANGED <<ribvars, acvars, fwdvars, hbvars>>

\* a Content with a lease arrives for a registration name: when the client
\* waits for it, the repository's prefix is set and the renewal scheduled
RegistrationContent(name, lease) ==
    /\ client.started
    /\ Len(client.to_lower) < MaxQueue
    /\ client' =
         IF name \in client.pending
         THEN [ client EXCEPT
                  !.prefix = served_prefix(name),
                  !.pending = @ \ { name },
                  !.renewals = { r \in @ : r.name # name }
                      \cup { [ name |-> name, due |-> client.now + renewal_delay(lease) ] },
                  !.granted = { g \in @ : g.name # name }
                      \cup { [ name |-> name, deadline |-> client.now + lease ] },
                  !.last = [ op |-> "content", arg |-> Some(name) ] ]
         ELSE [ client EXCEPT !.last = [ op |-> "ignored", arg |-> Some(name) ] ]
    /\ UNCHANGED <<ribvars, acvars, fwdvars, hbvars>>

\* mutant of RegistrationNack: the Nack is taken for an acknowledgement
\* without a lease
RegistrationNack_accepted(name) ==
    /\ client.started
    /\ Len(client.to_lower) < MaxQueue
    /\ client' =
         IF name \in client.pending
         THEN [ client EXCEPT
                  !.prefix = served_prefix(name),
                  !.pending = @ \ { name },
                  !.last = [ op |-> "nack", arg |-> Some(name) ] ]
         ELSE [ client EXCEPT !.last = [ op |-> "ignored", arg |-> Some(name) ] ]
    /\ UNCHANGED <<ribvars, acvars, fwdvars, hbvars>>

\* a Nack arrives for a registration name: the registration is abandoned, and
\* a renewal scheduled for it with it
RegistrationNack(name) ==
    /\ client.started
    /\ Len(client.to_lower) < MaxQueue
    /\ client' =
         IF name \in client.pending
         THEN [ client EXCEPT
                  !.pending = @ \ { name },
                  !.renewals = { r \in @ : r.name # name },
                  !.granted = { g \in @ : g.name # name },
                  !.last = [ op |-> "nack", arg |-> Some(name) ] ]
         ELSE [ client EXCEPT !.last = [ op |-> "ignored", arg |-> Some(name) ] ]
    /\ UNCHANGED <<ribvars, acvars, fwdvars, hbvars>>

\* a scheduled renewal is due: the registration Interest is sent again
Renew(r) ==
    /\ r \in client.renewals
    /\ r.due <= client.now
    /\ client' = [ client EXCEPT
                     !.renewals = @ \ { r },
                     !.granted = { g \in @ : g.name # r.name },
                     !.pending = @ \cup { r.name },
                     !.to_lower = Append(@, <<Val(client.forwarder), Interest(r.name)>>),
                     !.last = [ op |-> "renew", arg |-> Some(r.name) ] ]
    /\ UNCHANGED <<ribvars, acvars, fwdvars, hbvars>>

\* the link layer takes the head of the client's lower queue
ClientLowerTakes ==
    /\ Len(client.to_lower) > 0
    /\ client' = [ client EXCEPT !.to_lower = Tail(@) ]
    /\ UNCHANGED <<ribvars, acvars, fwdvars, hbvars>>

\* the client's clock advances; a renewal that is due is sent first
ClientTick ==
    /\ client.now < MaxTime
    /\ \A r \in client.renewals : r.due > client.now
    /\ client' = [ client EXCEPT !.now = @ + 1 ]
    /\ UNCHANGED <<ribvars, acvars, fwdvars, hbvars>>

ClientNext ==
    \/ ClientStart
    \/ \E lines \in Manifests : Advertisement(lines)
    \/ \E name \in ReplyNames, lease \in Leases : RegistrationContent(name, lease)
    \/ \E name \in ReplyNames : RegistrationNack(name)
    \/ \E r \in client.renewals : Renew(r)
    \/ ClientLowerTakes
    \/ ClientTick

ClientSpec == ClientInit /\ [][ClientNext]_vars

\* ------------------------------------------------- HeartbeatNetworkLayer
\* Playground/Heartbeats/Layers/NetworkLayer/HeartbeatNetworkLayer.py; the
\* tables and the handlers of BasicICNLayer follow the description of the
\* ICN forwarding stage.

\* the names of the packets the layer receives; /x is a prefix of /x/y
HbNames == { <<"x">>, <<"y">>, <<"x", "y">> }

\* the face Interests arrive on, the face of the only route, the local marker
DownstreamFace == 1
UpstreamFace == 2
LocalFace == 0

Heartbeat(name) ==
    [ kind |-> "Heartbeat", name |-> name, content |-> None, reason |-> None,
      interest |-> None ]

\* no message handled yet
NoPacket == [ op |-> "init", name |-> <<>>, refreshed |-> FALSE ]

\* HeartbeatNetworkLayer.__init__ with the tables BasicICNLayer is given: an
\* empty CS and PIT, a FIB with one route, empty queues
NewHeartbeatLayer ==
    [ cs |-> {}, pit |-> {},
      fib |-> << [ name |-> <<"x">>, fid |-> UpstreamFace ] >>,
      to_lower |-> <<>>, to_higher |-> <<>>, now |-> 0, last |-> NoPacket ]

\* pit.find_pit_entry(name): the entry of that exact name, or None
find_pit_entry(pit, name) ==
    IF \E e \in pit : e.name = name
    THEN Some(CHOOSE e \in pit : e.name = name)
    ELSE None

\* pit.update_timestamp(pit_entry): the entry's timestamp becomes the time
update_timestamp(pit, pit_entry, time) ==
    (pit \ {pit_entry}) \cup { [ pit_entry EXCEPT !.timestamp = time ] }

\* cs.find_content_object(name)
find_content_object(cs, name) ==
    IF \E c \in cs : c.name = name
    THEN Some(CHOOSE c \in cs : c.name = name)
    ELSE None

\* fib.find_fib_entry(name): the entry of the longest prefix, or None
find_fib_entry(fib, name) ==
    LET match == { i \in 1 .. Len(fib) : is_prefix_of(fib[i].name, name) }
    IN  IF match = {} THEN None
        ELSE Some(fib[CHOOSE i \in match :
                          \A j \in match : Len(fib[j].name) <= Len(fib[i].name)])

\* the messages for the faces of a PIT entry that are on one side
Dispatch(faces, packet) ==
    IF faces = {} THEN <<>>
    ELSE LET Lo == CHOOSE f \in faces : \A g \in faces : f <= g
         IN  IF Cardinality(faces) = 1 THEN << <<Lo, packet>> >>
             ELSE << <<Lo, packet>>, <<CHOOSE f \in faces : f # Lo, packet>> >>

\* BasicICNLayer.handle_interest_from_lower / handle_interest_from_higher:
\* CS hit, PIT hit, no route, forward
handle_interest(l, face_id, interest, from_local) ==
    LET cs_entry == find_content_object(l.cs, interest.name)
        pit_entry == find_pit_entry(l.pit, interest.name)
        fib_entry == find_fib_entry(l.fib, interest.name)
        reply(p) == IF from_local
                    THEN [ l EXCEPT !.to_higher = Append(@, <<face_id, p>>) ]
                    ELSE [ l EXCEPT !.to_lower = Append(@, <<face_id, p>>) ]
    IN  IF cs_entry # None
        THEN [ reply(Content(interest.name, Some(<<"data">>))) EXCEPT
                   !.cs = (@ \ {Val(cs_entry)})
                              \cup { [ Val(cs_entry) EXCEPT !.timestamp = l.now ] } ]
        ELSE IF pit_entry # None
        THEN [ l EXCEPT !.pit = (@ \ {Val(pit_entry)}) \cup
                   { [ Val(pit_entry) EXCEPT !.incoming = @ \cup {face_id},
                                             !.timestamp = l.now ] } ]
        ELSE IF fib_entry = None
        THEN reply(Nack(interest.name, "NO_ROUTE", Some(interest)))
        ELSE [ l EXCEPT
                   !.pit = @ \cup { [ name |-> interest.name, incoming |-> {face_id},
                                      outgoing |-> {Val(fib_entry).fid},
                                      timestamp |-> l.now, from_local |-> from_local ] },
                   !.to_lower = Append(@, <<Val(fib_entry).fid, interest>>) ]

\* BasicICNLayer.handle_content: to every incoming face, into the CS, the PIT
\* entry removed; unsolicited content is dropped
handle_content(l, face_id, content) ==
    LET pit_entry == find_pit_entry(l.pit, content.name)
    IN  IF pit_entry = None THEN l
        ELSE LET e == Val(pit_entry)
             IN  [ l EXCEPT
                     !.to_lower = @ \o Dispatch(e.incoming \ {LocalFace}, content),
                     !.to_higher = @ \o Dispatch(e.incoming \cap {LocalFace}, content),
                     !.cs = { c \in @ : c.name # content.name }
                                \cup { [ name |-> content.name, timestamp |-> l.now ] },
                     !.pit = @ \ {e} ]

\* BasicICNLayer.handle_nack: to every incoming face, the PIT entry removed
handle_nack(l, face_id, nack) ==
    LET pit_entry == find_pit_entry(l.pit, nack.name)
    IN  IF pit_entry = None THEN l
        ELSE LET e == Val(pit_entry)
             IN  [ l EXCEPT
                     !.to_lower = @ \o Dispatch(e.incoming \ {LocalFace}, nack),
                     !.to_higher = @ \o Dispatch(e.incoming \cap {LocalFace}, nack),
                     !.pit = @ \ {e} ]

\* mutant of handle_heartbeat: the heartbeat is forwarded on the entry's
\* outgoing faces as well
handle_heartbeat_forward(l, packet) ==
    LET pit_entry == find_pit_entry(l.pit, packet.name)
    IN  IF pit_entry # None
        THEN [ l EXCEPT !.pit = update_timestamp(@, Val(pit_entry), l.now),
                        !.to_lower = @ \o Dispatch(Val(pit_entry).outgoing, packet) ]
        ELSE l

\* HeartbeatNetworkLayer.handle_heartbeat, with time.time() read as l.now
handle_heartbeat(l, packet) ==
    LET pit_entry == find_pit_entry(l.pit, packet.name)
    IN  IF pit_entry # None
        THEN [ l EXCEPT !.pit = update_timestamp(@, Val(pit_entry), l.now) ]
        ELSE l

\* lines 32-39 and 44-51: the packet's class selects the handler
HbDispatchPacket(l, face_id, packet, from_higher) ==
    IF packet.kind = "Interest" THEN handle_interest(l, face_id, packet, from_higher)
    ELSE IF packet.kind = "Content" THEN handle_content(l, face_id, packet)
    ELSE IF packet.kind = "Nack" THEN handle_nack(l, face_id, packet)
    ELSE IF packet.kind = "Heartbeat" THEN handle_heartbeat(l, packet)
    ELSE l

\* HeartbeatNetworkLayer.data_from_lower: data as for the autoconfig layer
hb_data_from_lower(l, data) ==
    IF data.len # 2 THEN l
    ELSE IF data.fid = None THEN l
    ELSE IF data.packet = None THEN l
    ELSE HbDispatchPacket(l, Val(data.fid), Val(data.packet), FALSE)

\* HeartbeatNetworkLayer.data_from_higher: data is [high_level_id, packet]
hb_data_from_higher(l, data) ==
    HbDispatchPacket(l, data[1], data[2], TRUE)

\* what the layer takes from its lower queue
HbFromLower ==
    { Pair(DownstreamFace, Interest(n)) : n \in HbNames }
    \cup { Pair(UpstreamFace, Content(n, Some(<<"data">>))) : n \in HbNames }
    \cup { Pair(UpstreamFace, Nack(n, "NO_CONTENT", Some(Interest(n)))) : n \in HbNames }
    \cup { Pair(UpstreamFace, Heartbeat(n)) : n \in HbNames }
    \cup { m \in Mistyped : m.is_seq }

\* what the layer takes from its higher queue
HbFromHigher ==
    { <<LocalFace, Interest(n)>> : n \in HbNames }
    \cup { <<LocalFace, Content(<<"x">>, Some(<<"data">>))>>,
           <<LocalFace, Nack(<<"x">>, "NO_CONTENT", Some(Interest(<<"x">>)))>>,
           <<LocalFace, Heartbeat(<<"x">>)>> }

\* the record of the message handled: "refreshed" says that the PIT held an
\* entry of the packet's name with an older timestamp
Handled(l, packet) ==
    [ op |-> packet.kind, name |-> packet.name,
      refreshed |-> \E e \in l.pit : e.name = packet.name /\ e.timestamp < l.now ]

HbInit ==
    /\ tree = (Root :> RIBTreeNode(None))
    /\ shortest_only = TRUE
    /\ last = NoCall
    /\ layer = NewLayer
    /\ interest_to_app = FALSE
    /\ now = 0
    /\ handled = NothingHandled
    /\ acked = {}
    /\ forwarder = NoForwarder
    /\ client = NoClient
    /\ heartbeat = NewHeartbeatLayer

\* the layer's process takes a message from the lower queue
HbHandleFromLower(data) ==
    /\ Len(heartbeat.to_lower) < MaxQueue
    /\ Len(heartbeat.to_higher) < MaxQueue
    /\ heartbeat' = [ hb_data_from_lower(heartbeat, data) EXCEPT
                        !.last = IF data.len = 2 /\ data.fid # None /\ data.packet # None
                                 THEN Handled(heartbeat, Val(data.packet))
                                 ELSE [ NoPacket EXCEPT !.op = "dropped" ] ]
    /\ UNCHANGED <<ribvars, acvars, fwdvars, clvars>>

\* the layer's process takes a message from the higher queue
HbHandleFromHigher(data) ==
    /\ Len(heartbeat.to_lower) < MaxQueue
    /\ Len(heartbeat.to_higher) < MaxQueue
    /\ heartbeat' = [ hb_data_from_higher(heartbeat, data) EXCEPT
                        !.last = Handled(heartbeat, data[2]) ]
    /\ UNCHANGED <<ribvars, acvars, fwdvars, clvars>>

\* the stage below takes a message from to_lower
HbLowerTakes ==
    /\ Len(heartbeat.to_lower) > 0
    /\ heartbeat' = [ heartbeat EXCEPT !.to_lower = Tail(@) ]
    /\ UNCHANGED <<ribvars, acvars, fwdvars, clvars>>

\* the application takes a message from to_higher
HbHigherTakes ==
    /\ Len(heartbeat.to_higher) > 0
    /\ heartbeat' = [ heartbeat EXCEPT !.to_higher = Tail(@) ]
    /\ UNCHANGED <<ribvars, acvars, fwdvars, clvars>>

\* time passes
HbTick ==
    /\ heartbeat.now < MaxClock
    /\ heartbeat' = [ heartbeat EXCEPT !.now = @ + 1 ]
    /\ UNCHANGED <<ribvars, acvars, fwdvars, clvars>>

HbNext ==
    \/ \E data \in HbFromLower : HbHandleFromLower(data)
    \/ \E data \in HbFromHigher : HbHandleFromHigher(data)
    \/ HbLowerTakes
    \/ HbHigherTakes
    \/ HbTick

HbSpec == HbInit /\ [][HbNext]_vars

\* ------------------------------------------------------- claims on the RIB

IsPrefix(a, b) == Len(a) <= Len(b) /\ \A i \in 1 .. Len(a) : a[i] = b[i]
StrictPrefix(a, b) == Len(a) < Len(b) /\ IsPrefix(a, b)

\* what collapse() on the root returns in the current state
Collapsed == collapse(tree, Root, shortest_only)

\* the tree after insert(/a/b, F1, 1) and insert(/a/c, f, 1) on an empty RIB
TwoLeaves(f) ==
    insert(insert((Root :> RIBTreeNode(None)), <<"a", "b">>, 1, 1, None),
           <<"a", "c">>, f, 1, None)

\* C1 as stated: the list returned by collapse() holds no two entries (n1, f)
\* and (n2, f) of the same face with n1 a strict prefix of n2.
C1_PrefixMinimal ==
    LET c == Collapsed
    IN  ~c.raised =>
            \A i, j \in 1 .. Len(c.val) :
                c.val[i][2] = c.val[j][2] => ~StrictPrefix(c.val[i][1], c.val[j][1])

\* C1 amended: two entries (n1, f) and (n2, f) with n1 a strict prefix of n2
\* are returned only together with an entry of another face under n1: a
\* subtree whose candidates all carry one face is reduced to one entry.
C1_PrefixMinimalPerFaceSubtree ==
    LET c == Collapsed
    IN  ~c.raised =>
            \A i, j \in 1 .. Len(c.val) :
                ( c.val[i][2] = c.val[j][2] /\ StrictPrefix(c.val[i][1], c.val[j][1]) )
                    => \E k \in 1 .. Len(c.val) :
                           /\ c.val[k][2] # c.val[i][2]
                           /\ IsPrefix(c.val[i][1], c.val[k][1])

\* C1 witness: build_fib has run on a tree whose collapsed list holds a name
\* and a longer name under it for the same face.
C1_Witness ==
    /\ last.op = "build_fib"
    /\ LET c == Collapsed
       IN  /\ ~c.raised
           /\ \E i, j \in 1 .. Len(c.val) :
                  c.val[i][2] = c.val[j][2] /\ StrictPrefix(c.val[i][1], c.val[j][1])

\* the nodes that have children, whose candidate list was built
Inner == { n \in DOMAIN tree : Len(tree[n].children) > 0 }

\* the minimum of the candidates' distances
MinDist(ch_res) ==
    CHOOSE d \in { ch_res[i][3] : i \in 1 .. Len(ch_res) } :
        \A i \in 1 .. Len(ch_res) : d <= ch_res[i][3]

\* C2 as stated: a node whose combined candidate list has more than one entry,
\* all of one face F, emits exactly one tuple (P, F, d, t), d the minimum
\* distance and t the timeout of a candidate of that distance; and after
\* insert(/a/b, F1, 1), insert(/a/c, F1, 1) collapse() is [(/a, F1, 1, t)].
C2_SingleFaceReduced ==
    /\ \A n \in Inner :
           LET c == Candidates(tree, n, shortest_only)
               r == collapse(tree, n, shortest_only)
           IN  ( ~c.raised /\ Len(c.val) > 1 /\ Cardinality(SubFids(c.val)) = 1 )
                   => /\ ~r.raised
                      /\ Len(r.val) = 1
                      /\ r.val[1][1] = tree[n].nc
                      /\ r.val[1][2] \in SubFids(c.val)
                      /\ r.val[1][3] = MinDist(c.val)
                      /\ \E i \in 1 .. Len(c.val) :
                             c.val[i][3] = r.val[1][3] /\ c.val[i][4] = r.val[1][4]
    /\ tree = TwoLeaves(1) =>
           Collapsed = [ raised |-> FALSE, val |-> << <<(<<"a">>), 1, 1, None>> >> ]

\* C3: a node whose combined candidate list holds two or more faces emits
\* every candidate unchanged and no aggregate entry; and after
\* insert(/a/b, F1, 1), insert(/a/c, F2, 1) collapse() is exactly
\* [(/a/b, F1, 1), (/a/c, F2, 1)].
C3_MultiFaceUnchanged ==
    /\ \A n \in Inner :
           LET c == Candidates(tree, n, shortest_only)
           IN  ( ~c.raised /\ Cardinality(SubFids(c.val)) >= 2 )
                   => collapse(tree, n, shortest_only) = [ raised |-> FALSE, val |-> c.val ]
    /\ tree = TwoLeaves(2) =>
           Collapsed = [ raised |-> FALSE,
                         val |-> << <<(<<"a", "b">>), 1, 1, None>>,
                                    <<(<<"a", "c">>), 2, 1, None>> >> ]

\* C3 witness: build_fib has run on the RIB of the two inserts.
C3_Witness == last.op = "build_fib" /\ tree = TwoLeaves(2)

\* the nodes with a distance vector
Routed == { n \in DOMAIN tree : Len(tree[n].dv) > 0 }

\* the faces of minimal distance in a distance vector
Nearest(dv) ==
    { dv[i].fid : i \in { i \in 1 .. Len(dv) : \A j \in 1 .. Len(dv) : dv[i].dist <= dv[j].dist } }

SmallestOf(S) == CHOOSE x \in S : \A y \in S : x <= y

\* with shortest_only = false a node contributes one candidate per face
OnePerFace(n) ==
    LET own == OwnEntries(tree[n], FALSE)
        dv == tree[n].dv
    IN  /\ Len(own) = Len(dv)
        /\ \A i \in 1 .. Len(dv) :
               own[i] = <<tree[n].nc, dv[i].fid, dv[i].dist, dv[i].timeout>>

\* C4 as stated: with shortest_only = true a node contributes only the face of
\* minimum distance, the smallest face id among several of that distance,
\* whatever the order of insertion; with shortest_only = false it contributes
\* one candidate per face.
C4_SmallestFaceOnTie ==
    \A n \in Routed :
        /\ LET own == OwnEntries(tree[n], TRUE)
           IN  Len(own) = 1 /\ own[1][2] = SmallestOf(Nearest(tree[n].dv))
        /\ OnePerFace(n)

\* C4 amended: with shortest_only = true a node contributes only the face of
\* minimum distance, and among several faces of that distance the one whose
\* entry comes first in the distance vector's insertion order (an overwrite
\* keeps the entry's place); with shortest_only = false it contributes one
\* candidate per face.
C4_FirstInsertedOnTie ==
    \A n \in Routed :
        /\ LET own == OwnEntries(tree[n], TRUE)
               dv == tree[n].dv
           IN  /\ Len(own) = 1
               /\ own[1][2] \in Nearest(dv)
               /\ \E i \in 1 .. Len(dv) :
                      /\ own[1] = <<tree[n].nc, dv[i].fid, dv[i].dist, dv[i].timeout>>
                      /\ \A j \in 1 .. i - 1 : dv[j].fid \notin Nearest(dv)
        /\ OnePerFace(n)

\* C4 witness: build_fib has run with shortest_only on a node whose two faces
\* share the minimum distance, the larger face id inserted first.
C4_Witness ==
    /\ last.op = "build_fib"
    /\ shortest_only
    /\ \E n \in Routed :
           /\ Len(tree[n].dv) = 2
           /\ tree[n].dv[1].dist = tree[n].dv[2].dist
           /\ tree[n].dv[1].fid > tree[n].dv[2].fid

\* C5: after ageing(now) no node holds a distance-vector entry with a non-null
\* timeout <= now, and no non-root node without children and without
\* distance-vector entries is linked in the tree.
C5_AgeingPrunes ==
    last.op = "ageing" =>
        \A n \in DOMAIN tree :
            /\ \A i \in 1 .. Len(tree[n].dv) :
                   tree[n].dv[i].timeout = None \/ Val(tree[n].dv[i].timeout) > last.time
            /\ n # Root => Len(tree[n].children) > 0 \/ Len(tree[n].dv) > 0
            /\ \A i \in 1 .. Len(tree[n].children) :
                   LET c == n \o <<tree[n].children[i]>>
                   IN  c \in DOMAIN tree
                       /\ (Len(tree[c].children) > 0 \/ Len(tree[c].dv) > 0)

\* C5 witness: an ageing call unlinked a leaf and, in the same call, its parent.
C5_Witness == last.op = "ageing" /\ last.removed >= 2

Others(dv, fid) == SelectSeq(dv, LAMBDA e : e.fid # fid)

\* C7: whatever insert(name, face, distance, timeout) is called on a reachable
\* tree, afterwards the node spelled by name exists and maps face to exactly
\* (distance, timeout); the entries of the other faces there and of every
\* other node are unchanged, and no node is removed.
C7_InsertFrame ==
    \A name \in RouteNames, fid \in Faces, distance \in Dists, timeout \in Timeouts :
        LET after == insert(tree, name, fid, distance, timeout)
        IN  /\ DOMAIN tree \subseteq DOMAIN after
            /\ \A k \in 1 .. Len(name) : SubSeq(name, 1, k) \in DOMAIN after
            /\ LET dv == after[name].dv
               IN  /\ Cardinality({ i \in 1 .. Len(dv) : dv[i].fid = fid }) = 1
                   /\ \A i \in 1 .. Len(dv) :
                          dv[i].fid = fid
                              => dv[i] = [ fid |-> fid, dist |-> distance,
                                           timeout |-> timeout ]
                   /\ Others(dv, fid)
                          = IF name \in DOMAIN tree THEN Others(tree[name].dv, fid)
                            ELSE <<>>
            /\ \A n \in DOMAIN tree : n # name => after[n].dv = tree[n].dv

\* C7 witness: after an insert the tree holds MaxRoutes entries, two of them
\* at one node, for two faces, and a node of each name.
C7_Witness ==
    /\ last.op = "insert"
    /\ Routes(tree) = MaxRoutes
    /\ RouteNames \subseteq DOMAIN tree
    /\ \E n \in DOMAIN tree : Len(tree[n].dv) = 2

\* ------------------------------------------- claims on the autoconfig layer

\* a registration Interest /autoconfig/service/<remote>/<service_name> whose
\* remote reads host:port
WellFormed(data) ==
    /\ IsRegistration(data)
    /\ Len(Val(data.packet).name) > 3
    /\ Len(Split(Val(data.packet).name[3])) = 2
    /\ ParseInt(Split(Val(data.packet).name[3])[2]) # None

\* the remote address and the service name a well-formed registration carries
RemoteOf(data) ==
    LET parts == Split(Val(data.packet).name[3])
    IN  <<parts[1], Val(ParseInt(parts[2]))>>
ServiceOf(data) == NameFrom(Val(data.packet).name, 3)

\* the service name lies under a configured registration prefix
Allowed(srvname) ==
    \E i \in 1 .. Len(service_registration_prefixes) :
        is_prefix_of(service_registration_prefixes[i], srvname)

\* the service was acknowledged for another address and its lease of
\* service_registration_timeout has not expired at the given time
HeldByOther(srvname, addr, time) ==
    \E a \in acked :
        /\ a.name = srvname
        /\ a.addr # addr
        /\ time <= a.time + service_registration_timeout

\* C8 as stated: a registration for a service acknowledged earlier for another
\* remote address, arriving before that lease expires, is answered with
\* Nack(DUPLICATE) carrying the Interest and adds no FIB entry.
C8_DuplicateRejected ==
    [][ \A data \in FromLower :
          ( /\ WellFormed(data)
            /\ HeldByOther(ServiceOf(data), RemoteOf(data), now)
            /\ HandleFromLower(data) )
              => /\ Added(layer.to_lower, layer'.to_lower)
                      = << <<Val(data.fid),
                             Nack(Val(data.packet).name, "DUPLICATE", data.packet)>> >>
                 /\ layer'.fib = layer.fib ]_vars

\* C9 as stated: after a registration for service S from remote R is
\* acknowledged at time now, the known-service list holds exactly one entry for
\* S, with address R and lease deadline now + service_registration_timeout.
C9_KnownServiceUpserted ==
    [][ \A data \in FromLower :
          ( /\ WellFormed(data)
            /\ Acknowledged(data, data_from_lower(layer, interest_to_app, data, now), now)
                   # {}
            /\ HandleFromLower(data) )
              => LET known == layer'.known_services
                     S == { i \in 1 .. Len(known) : known[i].name = ServiceOf(data) }
                 IN  /\ Cardinality(S) = 1
                     /\ \A i \in S :
                            /\ known[i].addr = RemoteOf(data)
                            /\ known[i].timeout = now + service_registration_timeout
       ]_vars

IsServiceList(data) ==
    /\ data.is_seq /\ data.len = 2 /\ data.fid # None /\ data.packet # None
    /\ Val(data.packet).kind = "Interest"
    /\ is_prefix_of(AUTOCONFIG_SERVICE_LIST_PREFIX, Val(data.packet).name)

\* the <prefix> a service-list Interest asks for
ListPrefixOf(data) == NameFrom(Val(data.packet).name, Len(AUTOCONFIG_SERVICE_LIST_PREFIX))

\* C11 as stated: an Interest /autoconfig/services/<prefix> is answered with a
\* Content listing exactly the known services whose lease deadline has not
\* passed and whose name has <prefix> as a prefix, with Nack(NO_CONTENT) exactly
\* when there is none; and a service whose registration was acknowledged and
\* whose lease has not expired is in that list.
C11_ServicesListed ==
    [][ \A data \in FromLower :
          ( IsServiceList(data) /\ HandleFromLower(data) )
              => LET known == layer.known_services
                     live == SelectSeq(known, LAMBDA k :
                                 /\ now <= k.timeout
                                 /\ is_prefix_of(ListPrefixOf(data), k.name))
                     lines == [ i \in 1 .. Len(live) |-> <<live[i].name>> ]
                     added == Added(layer.to_lower, layer'.to_lower)
                 IN  /\ Len(added) = 1
                     /\ added[1][1] = Val(data.fid)
                     /\ added[1][2]
                            = IF Len(live) = 0
                              THEN Nack(Val(data.packet).name, "NO_CONTENT", None)
                              ELSE Content(Val(data.packet).name, Some(lines))
                     /\ \A a \in acked :
                            ( /\ now <= a.time + service_registration_timeout
                              /\ is_prefix_of(ListPrefixOf(data), a.name) )
                                => /\ added[1][2].kind = "Content"
                                   /\ \E i \in 1 .. Len(Val(added[1][2].content)) :
                                          Val(added[1][2].content)[i] = <<a.name>>
       ]_vars

Typed(data) == data.is_seq /\ data.len = 2 /\ data.fid # None /\ data.packet # None

\* a typed pair whose packet's name is not under /autoconfig
Unrelated(data) == Typed(data) /\ ~is_prefix_of(AUTOCONFIG_PREFIX, Val(data.packet).name)

\* C13: for a well-formed (face id, packet) from the lower queue whose name is
\* not under /autoconfig, the layer enqueues the identical pair exactly once,
\* to the higher queue if interest_to_app is on and to the lower queue
\* otherwise, enqueues nothing else, and changes no FIB, face or
\* known-service state.
C13_PassThroughFromLower ==
    [][ \A data \in FromLower :
          ( Unrelated(data) /\ HandleFromLower(data) )
              => LET pair == << <<Val(data.fid), Val(data.packet)>> >>
                     up == Added(layer.to_higher, layer'.to_higher)
                     down == Added(layer.to_lower, layer'.to_lower)
                 IN  /\ ~handled'.raised
                     /\ interest_to_app => up = pair /\ down = <<>>
                     /\ ~interest_to_app => down = pair /\ up = <<>>
                     /\ layer'.fib = layer.fib
                     /\ layer'.faces = layer.faces
                     /\ layer'.known_services = layer.known_services ]_vars

\* C13 witness: with interest_to_app on, a layer that holds a registered
\* service has passed a packet that is no Interest up, and nothing down.
C13_Witness ==
    /\ interest_to_app
    /\ handled.from = "lower"
    /\ Unrelated(Val(handled.data))
    /\ Val(Val(handled.data).packet).kind # "Interest"
    /\ Len(layer.fib) = 1
    /\ layer.to_higher = << <<ArrivalFace, Val(Val(handled.data).packet)>> >>
    /\ layer.to_lower = <<>>

\* C14: a message taken from the higher queue is enqueued unchanged, exactly
\* once, to the lower queue, behind the messages enqueued before it (the order
\* received), and nothing is enqueued to the higher queue.
C14_PassThroughFromHigher ==
    [][ \A msg \in FromHigher :
          HandleFromHigher(msg)
              => /\ layer'.to_lower = Append(layer.to_lower, msg)
                 /\ layer'.to_higher = layer.to_higher
                 /\ layer'.fib = layer.fib
                 /\ layer'.faces = layer.faces
                 /\ layer'.known_services = layer.known_services ]_vars

\* C14 witness: two different messages from above wait on the lower queue, the
\* one handled last behind the other.
C14_Witness ==
    /\ handled.from = "higher"
    /\ Len(layer.to_lower) = 2
    /\ layer.to_lower[1] \in FromHigher
    /\ layer.to_lower[2] = <<Val(Val(handled.data).fid), Val(Val(handled.data).packet)>>
    /\ layer.to_lower[1] # layer.to_lower[2]

\* the forwarder solicitation a client broadcasts at start-up
Solicitation == Pair(ArrivalFace, Interest(<<"autoconfig", "forwarders">>))

\* the layer has taken the solicitation from its lower queue
Solicited == handled.from = "lower" /\ handled.data = Some(Solicitation)

\* a Content of the solicitation's name, with a payload, waits on the lower
\* queue for the face the solicitation arrived on
SolicitationAnswered ==
    \E i \in 1 .. Len(layer.to_lower) :
        /\ layer.to_lower[i][1] = ArrivalFace
        /\ layer.to_lower[i][2].kind = "Content"
        /\ layer.to_lower[i][2].name = <<"autoconfig", "forwarders">>
        /\ layer.to_lower[i][2].content # None

\* C15 as stated: an Interest named /autoconfig/forwarders that arrives from a
\* lower face eventually produces a Content reply on that face carrying the
\* forwarder manifest.
C15_SolicitationAnswered == Solicited ~> SolicitationAnswered

\* the payload a registration acknowledgement is said to carry: one line
\* holding the lease duration in seconds (service_registration_timeout is
\* counted in hours)
LeasePayload == Some(<< <<service_registration_timeout * 3600>> >>)

\* C16 as stated: the Content that acknowledges a successful service
\* registration carries the lease duration in seconds as its payload.
C16_AckCarriesLease ==
    [][ \A data \in FromLower :
          ( /\ WellFormed(data)
            /\ Allowed(ServiceOf(data))
            /\ HandleFromLower(data) )
              => \A i \in 1 .. Len(Added(layer.to_lower, layer'.to_lower)) :
                     LET m == Added(layer.to_lower, layer'.to_lower)[i]
                     IN  m[2].kind = "Content" => m[2].content = LeasePayload ]_vars

\* an Interest named exactly /autoconfig
IsAutoconfig(data) ==
    /\ Typed(data)
    /\ Val(data.packet).kind = "Interest"
    /\ Val(data.packet).name = AUTOCONFIG_PREFIX

\* the manifest of a layer: the announce line, an r line per FIB entry in FIB
\* order, a p line per configured registration prefix
IsManifest(p, l) ==
    LET nr == Len(l.fib)
        np == Len(service_registration_prefixes)
    IN  /\ Len(p) = 1 + nr + np
        /\ p[1] = <<announce_addr, link_port>>
        /\ \A i \in 1 .. nr : p[1 + i] = <<"r", l.fib[i].name>>
        /\ \A j \in 1 .. np : p[1 + nr + j] = <<"p", service_registration_prefixes[j]>>

\* C17: an Interest named exactly /autoconfig is answered with one Content of
\* the same name, for the face it arrived on, whose payload is the line
\* <announce_addr>:<link_port>, then a line r:<name> for every FIB entry in FIB
\* order, then a line p:<name> for every configured registration prefix;
\* answering it changes no FIB, face or known-service state and enqueues
\* nothing upwards.
C17_ManifestAnswered ==
    \A data \in FromLower :
        IsAutoconfig(data)
            => LET r == data_from_lower(layer, interest_to_app, data, now)
                   added == Added(layer.to_lower, r.layer.to_lower)
               IN  /\ ~r.raised
                   /\ Len(added) = 1
                   /\ added[1][1] = Val(data.fid)
                   /\ added[1][2].kind = "Content"
                   /\ added[1][2].name = Val(data.packet).name
                   /\ added[1][2].content # None
                   /\ IsManifest(Val(added[1][2].content), layer)
                   /\ r.layer.to_higher = layer.to_higher
                   /\ r.layer.fib = layer.fib
                   /\ r.layer.faces = layer.faces
                   /\ r.layer.known_services = layer.known_services

\* C17 witness: a layer whose FIB holds two entries, for two faces, has
\* answered /autoconfig: the manifest waits on the lower queue, the announce
\* line first, then one r line for each of the two entries, then the p line.
C17_Witness ==
    /\ handled.from = "lower"
    /\ IsAutoconfig(Val(handled.data))
    /\ Len(layer.fib) = 2
    /\ layer.fib[1].fid # layer.fib[2].fid
    /\ Len(layer.to_lower) = 1
    /\ layer.to_lower[1][2].kind = "Content"
    /\ Val(layer.to_lower[1][2].content)
           = << <<announce_addr, link_port>>, <<"r", layer.fib[1].name>>,
                <<"r", layer.fib[2].name>>, <<"p", <<"test">> >> >>

\* ------------------------------------------------- claims on the forwarder

\* the stop order the stages have top-down: management, autoconfig when
\* enabled, the ICN layer, the packet encoding layer, the link layer
TopDown(autoconfig) ==
    <<"mgmt">> \o (IF autoconfig THEN <<"autoconfiglayer">> ELSE <<>>)
        \o <<"icnlayer", "packetencodinglayer", "linklayer">>

\* C18 as stated: stop_forwarder() stops the stages top-down, management,
\* autoconfig when enabled, the ICN layer, the packet encoding layer and the
\* link layer last: at every moment the stages stopped so far are the first
\* ones of that order, so no lower stage is stopped before a stage above it.
C18_StoppedTopDown ==
    /\ Len(forwarder.stopped) <= Len(TopDown(forwarder.autoconfig))
    /\ forwarder.stopped
           = SubSeq(TopDown(forwarder.autoconfig), 1, Len(forwarder.stopped))

\* C19: a forwarder built with autoconfig on has had SO_BROADCAST set on its
\* link socket exactly once at every moment of its lifetime, from construction
\* on, when no stage is started yet, to the end of stop_forwarder; one built
\* with autoconfig off never has it set, and neither does an autoconfig layer
\* constructed without a link layer.
C19_BroadcastSetOnce ==
    /\ forwarder.so_broadcast = IF forwarder.autoconfig THEN 1 ELSE 0
    /\ enable_broadcast(None) = 0

\* C19 witness: a forwarder with autoconfig on was started, all five stages,
\* and stopped, and its link socket has had SO_BROADCAST set once.
C19_Witness ==
    /\ forwarder.autoconfig
    /\ forwarder.pc = "stopped"
    /\ Len(forwarder.started) = 5
    /\ Len(forwarder.stopped) = 5
    /\ forwarder.so_broadcast = 1

\* C20: a mistyped message from the lower queue (not a list or tuple of length
\* 2, or its first element not an integer, or its second not a Packet) is
\* dropped: handling it raises nothing, enqueues nothing on either queue and
\* changes no FIB, face or known-service state, so the stage goes on with the
\* next message as if the mistyped one had not come.
C20_MistypedDropped ==
    /\ \A data \in FromLower :
           ~Typed(data)
               => LET r == data_from_lower(layer, interest_to_app, data, now)
                  IN  /\ ~r.raised
                      /\ r.layer.to_lower = layer.to_lower
                      /\ r.layer.to_higher = layer.to_higher
                      /\ r.layer.fib = layer.fib
                      /\ r.layer.faces = layer.faces
                      /\ r.layer.known_services = layer.known_services
    /\ ( handled.from = "lower" /\ ~Typed(Val(handled.data)) ) => ~handled.raised

\* C20 witness: a layer that holds a registered service has handled a pair
\* whose first element is no integer, with nothing left on its queues.
C20_Witness ==
    /\ handled.from = "lower"
    /\ Val(handled.data).is_seq
    /\ Val(handled.data).len = 2
    /\ Val(handled.data).fid = None
    /\ Val(handled.data).packet # None
    /\ ~handled.raised
    /\ Len(layer.fib) = 1
    /\ layer.to_lower = <<>>
    /\ layer.to_higher = <<>>

\* C21 as stated: a registration Interest whose name has no <remote>
\* component, or whose <remote> does not split on ':' into exactly a host and
\* an integer port, is handled without an exception escaping data_from_lower
\* and without changing the FIB, the face table or the known-service list.
C21_ParseErrorsConsumed ==
    [][ \A data \in FromLower :
          ( /\ IsRegistration(data)
            /\ ~WellFormed(data)
            /\ HandleFromLower(data) )
              => /\ ~handled'.raised
                 /\ layer'.fib = layer.fib
                 /\ layer'.faces = layer.faces
                 /\ layer'.known_services = layer.known_services ]_vars

\* the capacity of a queue of the forwarder: None when it is created without
\* a limit (maxsize <= 0)
Capacity(q) ==
    IF forwarder.maxsize[q] > 0 THEN Some(forwarder.maxsize[q]) ELSE None

\* C22 as stated: every queue ICNForwarder creates between adjacent stages is
\* bounded: it has a fixed capacity, and no put takes the number of messages
\* waiting in it beyond that capacity.
C22_QueuesBounded ==
    [][ \A q \in DOMAIN forwarder.queues :
          forwarder'.queues[q] > forwarder.queues[q]
              => /\ Capacity(q) # None
                 /\ forwarder'.queues[q] <= Val(Capacity(q)) ]_vars

\* --------------------------------------------------- claims on the client

\* the names of the lines of a manifest that carry the tag
NamesTagged(lines, tag) == { lines[i][2] : i \in { j \in 1 .. Len(lines) : lines[j][1] = tag } }

\* the registration Interests among the messages, for the forwarder's face
RegistrationsIn(msgs) ==
    { msgs[i][2].name : i \in { j \in 1 .. Len(msgs) :
                                  /\ msgs[j][1] = ArrivalFace
                                  /\ msgs[j][2].kind = "Interest" } }

\* C23: on a forwarder advertisement, a client with register_local and
\* register_global both on sends one registration Interest
\* /autoconfig/service/<self_addr:port>/<prefix>/<repo_name> to the forwarder's
\* face for each local (pl:) prefix and none for a global (pg:) prefix; with
\* register_local off and register_global on it sends one for each global
\* prefix and none for a local one; an r: line never triggers a registration.
C23_PrefixSelection ==
    [][ \A lines \in Manifests :
          Advertisement(lines)
              => LET added == Added(client.to_lower, client'.to_lower)
                     names(tag) == { registration_name(p) : p \in NamesTagged(lines, tag) }
                 IN  /\ \A i \in 1 .. Len(added) :
                            added[i][1] = ArrivalFace /\ added[i][2].kind = "Interest"
                     /\ RegistrationsIn(added) \cap names("r") = {}
                     /\ ( client.register_local /\ client.register_global )
                            => /\ RegistrationsIn(added) = names("pl")
                               /\ Len(added) = Cardinality(names("pl"))
                     /\ ( ~client.register_local /\ client.register_global )
                            => /\ RegistrationsIn(added) = names("pg")
                               /\ Len(added) = Cardinality(names("pg")) ]_vars

\* C23 witness: a client with both flags on has handled an advertisement with
\* two local prefixes and a global one: the two local registrations wait on
\* the lower queue, for the forwarder's face, and none for the global prefix.
C23_Witness ==
    /\ client.register_local /\ client.register_global
    /\ client.last.op = "advertisement"
    /\ NamesTagged(Val(client.last.arg), "pl") = { <<"test">>, <<"lab">> }
    /\ NamesTagged(Val(client.last.arg), "pg") = { <<"routed">> }
    /\ client.to_lower
           = << <<ArrivalFace, Interest(registration_name(<<"test">>))>>,
                <<ArrivalFace, Interest(registration_name(<<"lab">>))>> >>

\* C24: the repository's served prefix changes only when a Content arrives for
\* a registration Interest the client has sent and waits for, and then to that
\* registration's <prefix>/<repo_name>; when a Nack arrives for such an
\* Interest the served prefix keeps its value and no renewal is scheduled for
\* that registration.
C24_RegistrationOutcome ==
    [][ /\ client'.prefix # client.prefix
            => \E name \in client.pending, lease \in Leases :
                   /\ RegistrationContent(name, lease)
                   /\ client'.prefix = served_prefix(name)
        /\ \A name \in ReplyNames :
               ( name \in client.pending /\ RegistrationNack(name) )
                   => /\ client'.prefix = client.prefix
                      /\ \A r \in client'.renewals : r.name # name
                      /\ client'.to_lower = client.to_lower ]_vars

\* C24 witness: a client serving /test/testrepo, with the renewal of that
\* registration sent, has received a Nack for it: the prefix is kept and no
\* renewal is scheduled.
C24_Witness ==
    /\ client.last = [ op |-> "nack", arg |-> Some(registration_name(<<"test">>)) ]
    /\ client.prefix = <<"test", repo_name>>
    /\ client.renewals = {}
    /\ client.pending = {}

\* C25: when a registration ACK received at time now grants a lease of L
\* seconds, the client puts on the lower queue a renewal Interest with the same
\* registration name, for the forwarder's face, strictly before now + L: the
\* clock never reaches the deadline of a lease that is acknowledged and not
\* renewed (nor abandoned on a Nack), and the renewal is that Interest.
C25_RenewedBeforeExpiry ==
    /\ [](\A g \in client.granted : client.now < g.deadline)
    /\ [][ \A g \in client.granted :
             ( g \notin client'.granted /\ client'.last.op = "renew"
               /\ client'.last.arg = Some(g.name) /\ client'.last # client.last )
                 => /\ client.now < g.deadline
                    /\ Added(client.to_lower, client'.to_lower)
                         = << <<Val(client.forwarder), Interest(g.name)>> >>
                    /\ Val(client.forwarder) = ArrivalFace ]_vars

\* C25 witness: the renewal of a lease of four seconds granted at time 0 was
\* sent at time 3: the Interest waits on the lower queue, for the forwarder's
\* face.
C25_Witness ==
    /\ client.last = [ op |-> "renew", arg |-> Some(registration_name(<<"test">>)) ]
    /\ client.now = 3
    /\ client.granted = {}
    /\ client.prefix = <<"test", repo_name>>
    /\ client.to_lower = << <<ArrivalFace, Interest(registration_name(<<"test">>))>> >>

\* ------------------------------------------------------------------- C26

\* the nodes of the tree other than the root
NonRoot == DOMAIN tree \ {Root}

\* C26: in every state reached by insert and ageing calls on the root, every
\* node other than the root has a child or a distance-vector entry, is stored
\* in its parent under its own name component, refers to that parent, and
\* every stored child exists; the root has no parent.
C26_TreeShape ==
    /\ Root \in DOMAIN tree
    /\ tree[Root].parent = None
    /\ \A n \in NonRoot :
          /\ Len(tree[n].children) > 0 \/ Len(tree[n].dv) > 0
          /\ tree[n].nc = Some(n[Len(n)])
          /\ tree[n].parent = Some(SubSeq(n, 1, Len(n) - 1))
          /\ SubSeq(n, 1, Len(n) - 1) \in DOMAIN tree
          /\ InSeq(n[Len(n)], tree[SubSeq(n, 1, Len(n) - 1)].children)
    /\ \A p \in DOMAIN tree : \A i \in 1 .. Len(tree[p].children) :
          p \o <<tree[p].children[i]>> \in DOMAIN tree

\* an ageing call removed the last entry of a leaf and its parent, left with
\* an entry of its own, stayed in the tree
C26_Witness ==
    /\ last.op = "ageing"
    /\ last.removed > 0
    /\ <<"a">> \in DOMAIN tree
    /\ <<"a", "b">> \notin DOMAIN tree
    /\ Len(tree[<<"a">>].dv) > 0

\* ------------------------------------------------------------------- C27

\* the collapsed entries whose name is a prefix of the name of node n
Covering(val, n) == { i \in 1 .. Len(val) : is_prefix_of(val[i][1], n) }

\* the collapsed list keeps the forwarding decision of every node with routes
Preserved(val) ==
    /\ \A i, j \in 1 .. Len(val) : i # j => val[i][1] # val[j][1]
    /\ \A n \in DOMAIN tree : Len(tree[n].dv) > 0 =>
          /\ Covering(val, n) # {}
          /\ \A i \in Covering(val, n) :
                ( \A j \in Covering(val, n) : Len(val[j][1]) <= Len(val[i][1]) )
                    => val[i][2] = get_best_fid(tree[n].dv).fid

\* C27: with shortest_only = true, for every reachable RIB collapse() yields a
\* list in which no two entries have the same name and, for every node with a
\* non-empty distance vector, some entry's name is a prefix of the node's name
\* and the entry of the longest such prefix carries the node's best face.
C27_CollapsePreserves ==
    shortest_only =>
        LET c == collapse(tree, Root, TRUE)
        IN  ~c.raised /\ Preserved(c.val)

\* ------------------------------------------------------------------- C28

\* the branches of data_from_lower a name selects: pass-through, /autoconfig
\* exact, /autoconfig/services/..., /autoconfig/service/...
BranchesOf(name) ==
    ( IF ~is_prefix_of(AUTOCONFIG_PREFIX, name) THEN {"pass"} ELSE {} )
    \cup ( IF AUTOCONFIG_PREFIX = name THEN {"autoconfig"} ELSE {} )
    \cup ( IF is_prefix_of(AUTOCONFIG_SERVICE_LIST_PREFIX, name) THEN {"list"} ELSE {} )
    \cup ( IF is_prefix_of(AUTOCONFIG_SERVICE_REGISTRATION_PREFIX, name)
           THEN {"registration"} ELSE {} )

\* the number of messages waiting in the two queues of a layer
Enqueued(l) == Len(l.to_lower) + Len(l.to_higher)

\* C28: for every message taken from the lower queue, data_from_lower puts at
\* most one message over both queues; the name of a packet selects at most
\* one of the pass-through and the three reserved-name branches; and the reply
\* to a reserved-name Interest is put on the lower queue with the face the
\* Interest arrived on.
C28_AtMostOnePut ==
    \A data \in FromLower :
        LET r == data_from_lower(layer, interest_to_app, data, now)
        IN  /\ Enqueued(r.layer) <= Enqueued(layer) + 1
            /\ ( data.is_seq /\ data.len = 2 /\ data.fid # None /\ data.packet # None ) =>
                  LET packet == Val(data.packet)
                  IN  /\ Cardinality(BranchesOf(packet.name)) <= 1
                      /\ ( /\ packet.kind = "Interest"
                           /\ is_prefix_of(AUTOCONFIG_PREFIX, packet.name)
                           /\ Enqueued(r.layer) > Enqueued(layer) ) =>
                             /\ r.layer.to_higher = layer.to_higher
                             /\ Len(r.layer.to_lower) = Len(layer.to_lower) + 1
                             /\ SubSeq(r.layer.to_lower, 1, Len(layer.to_lower)) = layer.to_lower
                             /\ r.layer.to_lower[Len(r.layer.to_lower)][1] = Val(data.fid)
                             /\ r.layer.to_lower[Len(r.layer.to_lower)][2].kind
                                    \in {"Content", "Nack"}

\* the Interest /autoconfig/services was taken from the lower queue and its
\* one reply waits in the lower queue with the arrival face, nothing above
C28_Witness ==
    /\ handled.from = "lower"
    /\ handled.data = Some(Pair(ArrivalFace, Interest(<<"autoconfig", "services">>)))
    /\ Len(layer.to_lower) = 1
    /\ layer.to_lower[1][1] = ArrivalFace
    /\ layer.to_lower[1][2].kind = "Nack"
    /\ layer.to_higher = <<>>

\* ------------------------------------------------------------------- C29

\* C29: collapse() returns a result, without raising, for every RIB reached
\* by insert and ageing, also when routes of one subtree share a face and a
\* distance and some have no timeout while others have one.
C29_CollapseReturns ==
    ~collapse(tree, Root, shortest_only).raised

\* ---------------------------------------------- claims on the heartbeat layer

\* the layer took a Heartbeat of that name from one of its two queues
HeartbeatTaken(name) ==
    \/ HbHandleFromLower(Pair(UpstreamFace, Heartbeat(name)))
    \/ /\ <<LocalFace, Heartbeat(name)>> \in HbFromHigher
       /\ HbHandleFromHigher(<<LocalFace, Heartbeat(name)>>)

\* C30: handling a Heartbeat only refreshes state: a PIT entry of the
\* heartbeat's exact name gets the current time as its timestamp and nothing
\* else changes, and without such an entry nothing changes; no PIT entry is
\* added or removed, CS and FIB are untouched, nothing is put on a queue.
C30_HeartbeatOnlyRefreshes ==
    [][ \A name \in HbNames : HeartbeatTaken(name) =>
          /\ heartbeat'.cs = heartbeat.cs
          /\ heartbeat'.fib = heartbeat.fib
          /\ heartbeat'.to_lower = heartbeat.to_lower
          /\ heartbeat'.to_higher = heartbeat.to_higher
          /\ heartbeat'.now = heartbeat.now
          /\ Cardinality(heartbeat'.pit) = Cardinality(heartbeat.pit)
          /\ \A e \in heartbeat.pit :
                IF e.name = name
                THEN [ e EXCEPT !.timestamp = heartbeat.now ] \in heartbeat'.pit
                ELSE e \in heartbeat'.pit
          /\ ( \A e \in heartbeat.pit : e.name # name ) => heartbeat'.pit = heartbeat.pit
      ]_vars

\* a Heartbeat /x was handled while the PIT held older entries of /x and of
\* /x/y: the entry of /x has the current time, the one of /x/y its old one
C30_Witness ==
    /\ heartbeat.last.op = "Heartbeat"
    /\ heartbeat.last.name = <<"x">>
    /\ heartbeat.last.refreshed
    /\ \E e \in heartbeat.pit : e.name = <<"x">> /\ e.timestamp = heartbeat.now
    /\ \E e \in heartbeat.pit : e.name = <<"x", "y">> /\ e.timestamp < heartbeat.now

====
